---- MODULE Spec2Model ----
(***************************************************************************)
(* Model of test_files/create_exif_test_images.py: the generator of JPEG   *)
(* fixtures that carry an EXIF orientation tag.                            *)
(*                                                                         *)
(* Three specifications share the variables below:                         *)
(*   Spec       main(): raster generation pixel by pixel, the baseline     *)
(*              encode, the loop over the 8 orientations, the file writes; *)
(*   SpecExif   create_minimal_exif_with_orientation on bounded integers;  *)
(*   SpecEmbed  embed_exif_in_jpeg on bounded byte streams and segments.   *)
(* Bytes are integers in 0..255, byte strings are sequences of bytes.      *)
(***************************************************************************)
EXTENDS Integers, Sequences, FiniteSets, TLC

VARIABLES
    pc,             \* position in the running function
    raised,         \* the exception that ended the run, or "none"
    img,            \* create_asymmetric_image: the raster, (x, y) -> colour
    nset,           \* history: how many times each pixel has been assigned
    x, y,           \* create_asymmetric_image: the loop variables
    base_buffer,    \* main: the BytesIO the baseline encoder wrote into
    base_jpeg,      \* main: base_buffer.getvalue()
    item,           \* main: position in orientations.items()
    exif_segment,   \* main / embed_exif_in_jpeg: the APP1 segment
    jpeg_with_exif, \* main: result of the embedding
    files,          \* the file system: sequence of [name, content] written
    orientation,    \* create_minimal_exif_with_orientation: argument
    tiff_header,    \* create_minimal_exif_with_orientation: local
    ifd,            \* create_minimal_exif_with_orientation: local
    jpeg_bytes,     \* embed_exif_in_jpeg: argument
    ret,            \* outcome of the function under check (Return / Raise)
    calls           \* SpecEmbed: number of embeddings chained so far

vars == <<pc, raised, img, nset, x, y, base_buffer, base_jpeg, item,
          exif_segment, jpeg_with_exif, files, orientation, tiff_header,
          ifd, jpeg_bytes, ret, calls>>

imgVars  == <<img, nset, x, y>>
mainVars == <<base_buffer, base_jpeg, item, exif_segment, jpeg_with_exif, files>>
exifVars == <<orientation, tiff_header, ifd>>

\* Value of a variable that holds nothing (Python: unbound / None).
None == <<>>

(***************************************************************************)
(* Bounds of the model.                                                    *)
(***************************************************************************)
\* longest body the baseline encoder emits between SOI and EOI
MaxBody == 1
\* longest arbitrary input stream handed to embed_exif_in_jpeg
MaxLen == 3
\* longest arbitrary (non-EXIF) segment handed to embed_exif_in_jpeg
MaxSegLen == 2
\* how many embeddings are chained on one stream
MaxEmbeds == 2
\* integers -MaxBelow .. MaxAbove are tried as orientation arguments
MaxBelow == 2
MaxAbove == 60

\* Byte values streams are built from: NUL, 0xD8, 0xE1, 0xFF.
ByteAlphabet == {0, 216, 225, 255}

RECURSIVE SeqsUpTo(_, _)
SeqsUpTo(S, n) ==
    IF n = 0 THEN {<<>>}
    ELSE LET shorter == SeqsUpTo(S, n - 1)
         IN  shorter \cup {Append(s, b) : s \in shorter, b \in S}

(***************************************************************************)
(* Python helpers.                                                         *)
(***************************************************************************)
Min(a, b) == IF a < b THEN a ELSE b

\* s[:n] for n >= 0
SliceTo(s, n) == SubSeq(s, 1, Min(n, Len(s)))

\* s[n:] for n >= 0
SliceFrom(s, n) == SubSeq(s, n + 1, Len(s))

\* Outcome of a call: a returned value, or a raised exception.
Return(v) == [returned |-> TRUE, value |-> v]
Raise(e)  == [returned |-> FALSE, exc |-> e]
\* Before the call has ended.
Pending   == [returned |-> FALSE, exc |-> "none"]

\* struct.pack("<H", v) accepts 0 <= v <= 0xFFFF and raises struct.error
\* for any other integer.
FitsH(v) == v >= 0 /\ v <= 65535

\* struct.pack("<H", v), (">H", v), ("<I", v) for a v the format accepts
PackLE16(v) == <<v % 256, (v \div 256) % 256>>
PackBE16(v) == <<(v \div 256) % 256, v % 256>>
PackLE32(v) == <<v % 256, (v \div 256) % 256, (v \div 65536) % 256,
                 (v \div 16777216) % 256>>

(***************************************************************************)
(* create_asymmetric_image                                                 *)
(***************************************************************************)
White == <<255, 255, 255>>
Red   == <<255, 0, 0>>
Blue  == <<0, 0, 255>>
Green == <<0, 255, 0>>

\* Image.new("RGB", (40, 20), ...)
ImageSize == [width |-> 40, height |-> 20]

Pixels == (0 .. ImageSize.width - 1) \X (0 .. ImageSize.height - 1)

\* for x in range(x0, x1): for y in range(y0, y1)
RedRegion == [x0 |-> 0, x1 |-> 10, y0 |-> 0, y1 |-> 10]

BlueRegionWide == [x0 |-> 30, x1 |-> 40, y0 |-> 0, y1 |-> 20]
BlueRegion == [x0 |-> 35, x1 |-> 40, y0 |-> 0, y1 |-> 20]

GreenRegionFullWidth == [x0 |-> 0, x1 |-> 40, y0 |-> 15, y1 |-> 20]
GreenRegion == [x0 |-> 0, x1 |-> 35, y0 |-> 15, y1 |-> 20]

\* img = Image.new("RGB", (40, 20), color=(255, 255, 255)): every pixel of
\* the new canvas is set to white; then the first loop starts.
NewImage ==
    /\ pc = "new"
    /\ img' = [p \in Pixels |-> White]
    /\ nset' = [p \in Pixels |-> 1]
    /\ x' = RedRegion.x0
    /\ y' = RedRegion.y0
    /\ pc' = "red"
    /\ UNCHANGED <<raised, mainVars, exifVars, jpeg_bytes, ret, calls>>

\* One iteration of the body of a nested loop over region r:
\* img.putpixel((x, y), colour), then the loop variables advance (y is the
\* inner loop); after the last iteration the next loop (over region nxt)
\* starts at pc = after.
FillStep(r, colour, here, after, nxt) ==
    /\ pc = here
    /\ img' = [img EXCEPT ![<<x, y>>] = colour]
    /\ nset' = [nset EXCEPT ![<<x, y>>] = @ + 1]
    /\ IF y + 1 < r.y1
         THEN /\ y' = y + 1
              /\ UNCHANGED <<x, pc>>
         ELSE IF x + 1 < r.x1
         THEN /\ x' = x + 1
              /\ y' = r.y0
              /\ UNCHANGED pc
         ELSE /\ x' = nxt.x0
              /\ y' = nxt.y0
              /\ pc' = after
    /\ UNCHANGED <<raised, mainVars, exifVars, jpeg_bytes, ret, calls>>

RedSquare  == FillStep(RedRegion, Red, "red", "blue", BlueRegion)
BlueStrip  == FillStep(BlueRegion, Blue, "blue", "green", GreenRegion)
\* After the last loop the loop variables keep their last values.
GreenStrip == FillStep(GreenRegion, Green, "green", "save", [x0 |-> x, y0 |-> y])

(***************************************************************************)
(* create_minimal_exif_with_orientation                                    *)
(***************************************************************************)
\* tiff_header = b"II" + pack("<H", 42) + pack("<I", 8)
TiffHeaderBigEndian == <<77, 77>> \o PackBE16(42) \o <<0, 0, 0, 8>>
TiffHeader == <<73, 73>> \o PackLE16(42) \o PackLE32(8)

\* ifd = entry count, tag 0x0112, type SHORT, count 1
IfdHead == PackLE16(1) \o PackLE16(274) \o PackLE16(3) \o PackLE32(1)

\* struct.pack("<HH", orientation, 0)
PackValueClamped(o) ==
    Return(PackLE16(IF o < 1 THEN 1 ELSE IF o > 8 THEN 8 ELSE o) \o PackLE16(0))
PackValueTwoBytes(o) ==
    IF FitsH(o) THEN Return(PackLE16(o)) ELSE Raise("struct.error")
PackValue(o) ==
    IF FitsH(o) THEN Return(PackLE16(o) \o PackLE16(0))
    ELSE Raise("struct.error")

\* app1_length = len(app1_data) + 2
App1LengthPayloadOnly(app1_data) == Len(app1_data)
App1Length(app1_data) == Len(app1_data) + 2

\* exif_header + tiff_data framed as an APP1 segment
App1Segment(tiff_data) ==
    LET exif_header == <<69, 120, 105, 102, 0, 0>>
        app1_data == exif_header \o tiff_data
    IN  <<255, 225>> \o PackBE16(App1Length(app1_data)) \o app1_data

\* The whole function, as main calls it.
CreateMinimalExifWithOrientation(o) ==
    LET v == PackValue(o)
    IN  IF v.returned
        THEN Return(App1Segment(TiffHeader \o IfdHead \o v.value \o PackLE32(0)))
        ELSE v

\* Lines 62-76: the TIFF header and the IFD up to the value field.
ExifHeader ==
    /\ pc = "exif_call"
    /\ tiff_header' = TiffHeader
    /\ ifd' = IfdHead
    /\ pc' = "exif_value"
    /\ UNCHANGED <<raised, imgVars, mainVars, orientation, jpeg_bytes, ret, calls>>

\* Line 77: the value field; struct.error leaves the function here.
ExifValue ==
    /\ pc = "exif_value"
    /\ LET v == PackValue(orientation)
       IN  IF v.returned
           THEN /\ ifd' = ifd \o v.value
                /\ pc' = "exif_finish"
                /\ UNCHANGED ret
           ELSE /\ ret' = v
                /\ pc' = "exif_raised"
                /\ UNCHANGED ifd
    /\ UNCHANGED <<raised, imgVars, mainVars, orientation, tiff_header,
                   jpeg_bytes, calls>>

\* Lines 80-94: the IFD terminator, the APP1 framing, the return.
ExifFinish ==
    /\ pc = "exif_finish"
    /\ ifd' = ifd \o PackLE32(0)
    /\ ret' = Return(App1Segment(tiff_header \o ifd'))
    /\ pc' = "exif_returned"
    /\ UNCHANGED <<raised, imgVars, mainVars, orientation, tiff_header,
                   jpeg_bytes, calls>>

(***************************************************************************)
(* embed_exif_in_jpeg                                                      *)
(***************************************************************************)
SOI == <<255, 216>>

EmbedFirstByteOnly(jpeg, segment) ==
    IF SliceTo(jpeg, 1) # <<255>>
    THEN Raise("ValueError")
    ELSE Return(SliceTo(jpeg, 2) \o segment \o SliceFrom(jpeg, 2))
EmbedOnce(jpeg, segment) ==
    IF SliceTo(jpeg, 2) # SOI
    THEN Raise("ValueError")
    ELSE IF SliceTo(SliceFrom(jpeg, 2), Len(segment)) = segment
    THEN Return(jpeg)
    ELSE Return(SliceTo(jpeg, 2) \o segment \o SliceFrom(jpeg, 2))
EmbedExifInJpeg(jpeg, segment) ==
    IF SliceTo(jpeg, 2) # SOI
    THEN Raise("ValueError")
    ELSE Return(SliceTo(jpeg, 2) \o segment \o SliceFrom(jpeg, 2))

\* One call of embed_exif_in_jpeg(jpeg_bytes, exif_segment).
EmbedCall ==
    /\ pc = "embed_call"
    /\ ret' = EmbedExifInJpeg(jpeg_bytes, exif_segment)
    /\ pc' = IF ret'.returned THEN "embed_returned" ELSE "embed_raised"
    /\ calls' = calls + 1
    /\ UNCHANGED <<raised, imgVars, base_buffer, base_jpeg, item,
                   exif_segment, jpeg_with_exif, files, exifVars, jpeg_bytes>>

\* The caller hands the returned stream to embed_exif_in_jpeg again, with
\* the same segment.
EmbedAgain ==
    /\ pc = "embed_returned"
    /\ calls < MaxEmbeds
    /\ jpeg_bytes' = ret.value
    /\ ret' = Pending
    /\ pc' = "embed_call"
    /\ UNCHANGED <<raised, imgVars, mainVars, exifVars, calls>>

(***************************************************************************)
(* main                                                                    *)
(***************************************************************************)
EOI == <<255, 217>>

\* base_img.save(base_buffer, format="JPEG", quality=95): the codec is
\* external; what it writes is some JPEG stream, SOI ... EOI.
EncoderOutputs == {SOI \o body \o EOI : body \in SeqsUpTo(ByteAlphabet, MaxBody)}

\* The dict of main, in insertion order (the order items() iterates in).
OrientationsReversed ==
    <<<<8, "rotate_270_cw">>, <<7, "transverse">>, <<6, "rotate_90_cw">>,
      <<5, "transpose">>, <<4, "flip_vertical">>, <<3, "rotate_180">>,
      <<2, "flip_horizontal">>, <<1, "normal">>>>
Orientations ==
    <<<<1, "normal">>, <<2, "flip_horizontal">>, <<3, "rotate_180">>,
      <<4, "flip_vertical">>, <<5, "transpose">>, <<6, "rotate_90_cw">>,
      <<7, "transverse">>, <<8, "rotate_270_cw">>>>

\* f"exif_orientation_{orientation}_{name}.jpg"
FileName(o, name) ==
    "exif_orientation_" \o ToString(o) \o "_" \o name \o ".jpg"

NoExifFileName == "exif_orientation_none.jpg"

\* what line 144 writes
NoExifContentLastEmbedded == jpeg_with_exif
NoExifContent == base_jpeg

\* Lines 117-119: encode the raster once, keep the bytes.
SaveBase ==
    /\ pc = "save"
    /\ \E out \in EncoderOutputs :
          /\ base_buffer' = out
          /\ base_jpeg' = out
    /\ item' = 1
    /\ pc' = "loop"
    /\ UNCHANGED <<raised, imgVars, exif_segment, jpeg_with_exif, files,
                   exifVars, jpeg_bytes, ret, calls>>

\* An exception in main: nothing catches it, the run ends there.
PropagateSwallowed(e) ==
    /\ raised' = e
    /\ item' = item + 1
    /\ pc' = IF item < Len(Orientations) THEN "loop"
             ELSE IF item = Len(Orientations) THEN "none" ELSE "done"
Propagate(e) ==
    /\ raised' = e
    /\ pc' = "raised"
    /\ UNCHANGED item

\* Lines 133-135: the next item of the dict, its segment, the embedding.
BuildFixture ==
    /\ pc = "loop"
    /\ LET seg == CreateMinimalExifWithOrientation(Orientations[item][1])
           emb == IF seg.returned THEN EmbedExifInJpeg(base_jpeg, seg.value)
                  ELSE seg
       IN  IF emb.returned
           THEN /\ exif_segment' = seg.value
                /\ jpeg_with_exif' = emb.value
                /\ pc' = "write"
                /\ UNCHANGED <<raised, item>>
           ELSE /\ Propagate(emb.exc)
                /\ exif_segment' = IF seg.returned THEN seg.value ELSE exif_segment
                /\ UNCHANGED jpeg_with_exif
    /\ UNCHANGED <<imgVars, base_buffer, base_jpeg, files, exifVars,
                   jpeg_bytes, ret, calls>>

\* Lines 137-140: the file is written; the loop goes on, or ends.
WriteFixture ==
    /\ pc = "write"
    /\ files' = Append(files, [name |-> FileName(Orientations[item][1],
                                                  Orientations[item][2]),
                               content |-> jpeg_with_exif])
    /\ item' = item + 1
    /\ pc' = IF item < Len(Orientations) THEN "loop" ELSE "none"
    /\ UNCHANGED <<raised, imgVars, base_buffer, base_jpeg, exif_segment,
                   jpeg_with_exif, exifVars, jpeg_bytes, ret, calls>>

\* Lines 143-145: the fixture without EXIF.
WriteNoExif ==
    /\ pc = "none"
    /\ files' = Append(files, [name |-> NoExifFileName, content |-> NoExifContent])
    /\ pc' = "done"
    /\ UNCHANGED <<raised, imgVars, base_buffer, base_jpeg, item, exif_segment,
                   jpeg_with_exif, exifVars, jpeg_bytes, ret, calls>>

\* The file that open(filename, "wb") is about to create, and its bytes.
Pending_file ==
    IF pc = "write"
    THEN [name |-> FileName(Orientations[item][1], Orientations[item][2]),
          content |-> jpeg_with_exif]
    ELSE [name |-> NoExifFileName, content |-> NoExifContent]

\* open(filename, "wb") raises OSError: no file is created.
OpenFails ==
    /\ pc \in {"write", "none"}
    /\ Propagate("OSError")
    /\ UNCHANGED <<imgVars, base_buffer, base_jpeg, exif_segment,
                   jpeg_with_exif, files, exifVars, jpeg_bytes, ret, calls>>

\* f.write / the flush on close raises OSError: the file exists and holds
\* some strict prefix of the bytes.
WriteFails ==
    /\ pc \in {"write", "none"}
    /\ \E k \in 0 .. Len(Pending_file.content) - 1 :
          files' = Append(files, [name |-> Pending_file.name,
                                  content |-> SliceTo(Pending_file.content, k)])
    /\ Propagate("OSError")
    /\ UNCHANGED <<imgVars, base_buffer, base_jpeg, exif_segment,
                   jpeg_with_exif, exifVars, jpeg_bytes, ret, calls>>

(***************************************************************************)
(* Specifications                                                          *)
(***************************************************************************)
\* What every specification starts from: nothing has run.
Idle ==
    /\ raised = "none"
    /\ img = None /\ nset = None /\ x = 0 /\ y = 0
    /\ base_buffer = None /\ base_jpeg = None /\ item = 0
    /\ jpeg_with_exif = None /\ files = <<>>
    /\ tiff_header = None /\ ifd = None
    /\ ret = Pending /\ calls = 0

\* main() is about to run.
Init ==
    /\ Idle
    /\ pc = "new"
    /\ exif_segment = None /\ orientation = 0 /\ jpeg_bytes = None

Next ==
    \/ NewImage \/ RedSquare \/ BlueStrip \/ GreenStrip
    \/ SaveBase \/ BuildFixture \/ WriteFixture \/ WriteNoExif
    \/ OpenFails \/ WriteFails

Spec == Init /\ [][Next]_vars

\* Integers create_minimal_exif_with_orientation is called with.
OrientationInputs == (-MaxBelow .. MaxAbove) \cup {255, 256, 65535, 65536}

InitExif ==
    /\ Idle
    /\ pc = "exif_call"
    /\ orientation \in OrientationInputs
    /\ exif_segment = None /\ jpeg_bytes = None

NextExif == ExifHeader \/ ExifValue \/ ExifFinish

SpecExif == InitExif /\ [][NextExif]_vars

\* Streams and segments embed_exif_in_jpeg is called with.
StreamInputs ==
    SeqsUpTo(ByteAlphabet, MaxLen)
        \cup {SOI \o rest : rest \in SeqsUpTo(ByteAlphabet, MaxLen)}

SegmentInputs ==
    {CreateMinimalExifWithOrientation(o).value : o \in 1 .. 8}
        \cup SeqsUpTo(ByteAlphabet, MaxSegLen)

InitEmbed ==
    /\ Idle
    /\ pc = "embed_call"
    /\ jpeg_bytes \in StreamInputs
    /\ exif_segment \in SegmentInputs
    /\ orientation = 0

NextEmbed == EmbedCall \/ EmbedAgain

SpecEmbed == InitEmbed /\ [][NextEmbed]_vars

(***************************************************************************)
(* Properties                                                              *)
(***************************************************************************)
\* The bytes of the EXIF segment for value n, written out (section 6 of the
\* specification of the layout), but for the length field, bytes 3 and 4.
ExpectedSegment(n, len_hi, len_lo) ==
    <<255, 225, len_hi, len_lo, 69, 120, 105, 102, 0, 0, 73, 73, 42, 0,
      8, 0, 0, 0, 1, 0, 18, 1, 3, 0, 1, 0, 0, 0, n, 0, 0, 0, 0, 0, 0, 0>>

\* The name of the j-th fixture main writes, written out.
ExpectedName(j) ==
    <<"exif_orientation_1_normal.jpg", "exif_orientation_2_flip_horizontal.jpg",
      "exif_orientation_3_rotate_180.jpg", "exif_orientation_4_flip_vertical.jpg",
      "exif_orientation_5_transpose.jpg", "exif_orientation_6_rotate_90_cw.jpg",
      "exif_orientation_7_transverse.jpg", "exif_orientation_8_rotate_270_cw.jpg",
      "exif_orientation_none.jpg">>[j]

StartsWithSOI(s) == Len(s) >= 2 /\ s[1] = 255 /\ s[2] = 216

EmbedEnded == pc \in {"embed_returned", "embed_raised"}
ExifEnded == pc \in {"exif_returned", "exif_raised"}
RasterDone == pc \notin {"new", "red", "blue", "green"}

\* C1: on a stream that starts with FF D8, embed_exif_in_jpeg returns the
\* stream with the segment inserted at position 2 and nothing else changed:
\* the SOI, then the segment, then the input from its offset 2 on, and the
\* length grows by the length of the segment; when the input already
\* carries the segment at position 2, the result carries it twice.
C1_EmbedIsPureInsertion ==
    (EmbedEnded /\ StartsWithSOI(jpeg_bytes)) =>
        /\ ret.returned
        /\ LET r == ret.value
               n == Len(exif_segment)
               m == Len(jpeg_bytes)
           IN  /\ Len(r) = m + n
               /\ SubSeq(r, 1, 2) = <<255, 216>>
               /\ SubSeq(r, 3, 2 + n) = exif_segment
               /\ SubSeq(r, 3 + n, Len(r)) = SubSeq(jpeg_bytes, 3, m)
               /\ (m >= 2 + n /\ SubSeq(jpeg_bytes, 3, 2 + n) = exif_segment) =>
                     r = <<255, 216>> \o exif_segment \o exif_segment
                            \o SubSeq(jpeg_bytes, 3 + n, m)

\* C1 witness: a second embedding of the 36-byte segment of orientation 6
\* has returned.
C1_Witness ==
    /\ pc = "embed_returned"
    /\ calls = 2
    /\ exif_segment = ExpectedSegment(6, 0, 34)
    /\ Len(jpeg_bytes) > 38
    /\ Len(ret.value) = Len(jpeg_bytes) + 36

\* C2: on a stream that does not start with FF D8 (the empty stream and
\* one-byte streams included) embed_exif_in_jpeg raises ValueError and
\* returns nothing.
C2_EmbedRejectsNonJpeg ==
    (EmbedEnded /\ ~StartsWithSOI(jpeg_bytes)) =>
        /\ pc = "embed_raised"
        /\ ret = [returned |-> FALSE, exc |-> "ValueError"]

\* C2 witness: the one-byte stream FF has been refused.
C2_Witness ==
    /\ pc = "embed_raised"
    /\ jpeg_bytes = <<255>>
    /\ ~ret.returned

\* C3: for n in 1..8 the builder returns the 36 bytes of the layout, with n
\* in the first byte of the 4-byte value field and 00 in the other three;
\* the segments of two different orientations differ in that byte only.
C3_SegmentLayout ==
    (ExifEnded /\ orientation \in 1 .. 8) =>
        /\ ret.returned
        /\ Len(ret.value) = 36
        /\ ret.value = ExpectedSegment(orientation, ret.value[3], ret.value[4])
        /\ \A other \in 1 .. 8 :
              LET seg == CreateMinimalExifWithOrientation(other).value
              IN  /\ Len(seg) = Len(ret.value)
                  /\ {k \in 1 .. 36 : seg[k] # ret.value[k]}
                        = IF other = orientation THEN {} ELSE {29}

\* C3 witness: the segment of orientation 6 has been returned.
C3_Witness ==
    /\ pc = "exif_returned"
    /\ orientation = 6
    /\ SubSeq(ret.value, 29, 32) = <<6, 0, 0, 0>>

\* C4: for n in 1..8 the big-endian length field of the returned segment is
\* the length of the segment without its 2-byte marker, 34: the length field
\* itself plus the 32 bytes from "Exif" to the end of the IFD terminator.
C4_App1LengthField ==
    (ExifEnded /\ orientation \in 1 .. 8) =>
        /\ ret.returned
        /\ LET length == ret.value[3] * 256 + ret.value[4]
           IN  /\ length = Len(ret.value) - 2
               /\ length = 2 + Len(SubSeq(ret.value, 5, Len(ret.value)))
               /\ length = 34

\* C4 witness: the segment of orientation 8 has been returned, its length
\* field read.
C4_Witness ==
    /\ pc = "exif_returned"
    /\ orientation = 8
    /\ ret.value[3] = 0
    /\ ret.value[4] = 34

\* C5, as claimed: an orientation outside 1..8 is rejected, no segment is
\* returned for it.
C5_Original ==
    (ExifEnded /\ orientation \notin 1 .. 8) => ~ret.returned

\* C5, amended: the builder checks no range. For an orientation outside
\* 1..8 that fits 16 unsigned bits it returns the 36-byte segment with the
\* orientation itself (not a clamped value) as little-endian 16 bits in the
\* value field; for any other integer struct.pack raises struct.error at
\* the value field, after the TIFF header and the head of the IFD were
\* built, and nothing is returned.
C5_NoRangeCheck ==
    (ExifEnded /\ orientation \notin 1 .. 8) =>
        IF orientation >= 0 /\ orientation <= 65535
        THEN /\ pc = "exif_returned"
             /\ ret.returned
             /\ Len(ret.value) = 36
             /\ ret.value[29] + 256 * ret.value[30] = orientation
             /\ [ret.value EXCEPT ![29] = 0, ![30] = 0] = ExpectedSegment(0, 0, 34)
        ELSE /\ pc = "exif_raised"
             /\ ret = [returned |-> FALSE, exc |-> "struct.error"]
             /\ Len(tiff_header) = 8
             /\ Len(ifd) = 10

\* C5 witness: a segment has been returned for orientation 65535.
C5_Witness ==
    /\ pc = "exif_returned"
    /\ orientation = 65535
    /\ SubSeq(ret.value, 29, 32) = <<255, 255, 0, 0>>

\* C6, as claimed: when the run has ended, every fixture but the one that
\* failed has been written.
C6_Original ==
    (pc \in {"done", "raised"}) =>
        \A j \in 1 .. 9 :
            (raised = "none" \/ j # item) =>
                \E k \in DOMAIN files : files[k].name = ExpectedName(j)

\* C6, amended: a failure while producing fixture k ends the run at once:
\* nothing runs after it, the fixtures before k are written and complete,
\* fixture k is absent or truncated, no later fixture is written.
C6_FailureAbortsRun ==
    (raised # "none") =>
        /\ pc = "raised"
        /\ ~ENABLED Next
        /\ Len(files) \in {item - 1, item}
        /\ \A k \in DOMAIN files : files[k].name = ExpectedName(k)
        /\ \A k \in 1 .. item - 1 :
              /\ k <= Len(files)
              /\ files[k].content
                    = <<255, 216>> \o ExpectedSegment(k, 0, 34)
                         \o SubSeq(base_buffer, 3, Len(base_buffer))
        /\ Len(files) = item =>
              Len(files[item].content)
                 < IF item = 9 THEN Len(base_buffer) ELSE Len(base_buffer) + 36

\* C6 witness: the fixture of orientation 3 failed after two were written.
C6_Witness ==
    /\ raised = "OSError"
    /\ pc = "raised"
    /\ item = 3
    /\ Len(files) = 2

\* C7: a run without failure has written exactly 9 files, each once: for
\* n = 1..8 in this order exif_orientation_<n>_<name>.jpg holding the
\* baseline with the segment of n embedded, then exif_orientation_none.jpg.
C7_NineFilesInOrder ==
    (pc = "done" /\ raised = "none") =>
        /\ Len(files) = 9
        /\ \A j \in 1 .. 9 : files[j].name = ExpectedName(j)
        /\ \A j, k \in 1 .. 9 : j # k => files[j].name # files[k].name
        /\ \A n \in 1 .. 8 :
              files[n].content
                 = <<255, 216>> \o ExpectedSegment(n, 0, 34)
                      \o SubSeq(base_buffer, 3, Len(base_buffer))

\* C7 witness: a run has ended without failure, the sixth file is the one
\* of orientation 6.
C7_Witness ==
    /\ pc = "done"
    /\ raised = "none"
    /\ files[6].name = "exif_orientation_6_rotate_90_cw.jpg"
    /\ SubSeq(files[6].content, 31, 34) = <<6, 0, 0, 0>>

\* C8: once encoded the baseline is never modified: base_jpeg stays what
\* the encoder wrote, and exif_orientation_none.jpg holds exactly those
\* bytes, 36 bytes shorter than every fixture with a segment.
C8_BaselineUntouched ==
    /\ (pc \in {"loop", "write", "none", "done", "raised"}) =>
          /\ base_jpeg = base_buffer
          /\ base_buffer \in EncoderOutputs
    /\ (pc = "done") =>
          /\ files[9] = [name |-> "exif_orientation_none.jpg",
                         content |-> base_buffer]
          /\ \A n \in 1 .. 8 :
                /\ files[n].content # files[9].content
                /\ Len(files[n].content) = Len(files[9].content) + 36

\* C8 witness: the ninth file has been written after 8 embeddings.
C8_Witness ==
    /\ pc = "done"
    /\ Len(files) = 9
    /\ Len(base_buffer) > 4
    /\ files[9].content = base_buffer
    /\ jpeg_with_exif # base_buffer

\* C9: in the finished raster a pixel is blue if x >= 35, else green if
\* y >= 15, else red if x < 10 and y < 10, else white.
C9_RasterRegions ==
    RasterDone =>
        /\ DOMAIN img = (0 .. 39) \X (0 .. 19)
        /\ \A px \in 0 .. 39, py \in 0 .. 19 :
              img[<<px, py>>] =
                 IF px >= 35 THEN <<0, 0, 255>>
                 ELSE IF py >= 15 THEN <<0, 255, 0>>
                 ELSE IF px < 10 /\ py < 10 THEN <<255, 0, 0>>
                 ELSE <<255, 255, 255>>

\* C9 witness: the raster is finished, with the four pixels the claim names.
C9_Witness ==
    /\ pc = "save"
    /\ img[<<0, 0>>] = <<255, 0, 0>>
    /\ img[<<39, 0>>] = <<0, 0, 255>>
    /\ img[<<0, 19>>] = <<0, 255, 0>>
    /\ img[<<20, 10>>] = <<255, 255, 255>>

\* C10, as claimed: in the finished raster every pixel has been assigned
\* exactly once.
C10_Original ==
    RasterDone => \A p \in (0 .. 39) \X (0 .. 19) : nset[p] = 1

\* C10, amended: the canvas creation assigns every pixel once, and the
\* three fill loops cover disjoint regions, so a pixel is never assigned
\* more than twice: in the finished raster the red, blue and green pixels
\* have been assigned exactly twice, the white ones exactly once.
C10_AssignedOnceOrTwice ==
    (pc # "new") =>
        /\ DOMAIN nset = (0 .. 39) \X (0 .. 19)
        /\ \A p \in (0 .. 39) \X (0 .. 19) : nset[p] \in {1, 2}
        /\ RasterDone =>
              \A px \in 0 .. 39, py \in 0 .. 19 :
                 nset[<<px, py>>] =
                    IF px >= 35 \/ py >= 15 \/ (px < 10 /\ py < 10) THEN 2 ELSE 1

\* C10 witness: the raster is finished; the pixel (0, 0) was assigned
\* twice, the pixel (20, 10) once.
C10_Witness ==
    /\ pc = "save"
    /\ nset[<<0, 0>>] = 2
    /\ nset[<<20, 10>>] = 1

====
